---------------------------- MODULE Spec2Model ----------------------------
(***************************************************************************)
(* Model of src/centered-on-asteroid/utils.py: get_dataframe, get_dataset  *)
(* and get_loaders.                                                        *)
(*                                                                         *)
(* Spec        : get_dataframe followed by get_dataset, one step per       *)
(*               statement group of the loop body.                         *)
(* SpecLoaders : get_loaders followed by passes over the training loader.  *)
(*                                                                         *)
(* A tensor is modelled by its shape and by the identity of the image      *)
(* frames (or labels) it holds, in storage order; pixel values are not     *)
(* modelled.                                                               *)
(***************************************************************************)
EXTENDS Integers, Sequences, FiniteSets, TLC

\* ------------------------------------------------------------------ bounds
\* Number of distinct mover ids that may occur in the two lookup tables.
NumMovers == 2
\* Largest number of rows (both tables together) of one mover id.
MaxRows == 5

\* Largest dataset for which random_split and the sampler may draw any
\* permutation (larger datasets: see RandPerms).
MaxLen == 3
\* Largest batch_size, the 4 of the documented scenario apart.
MaxBatch == 3
\* Number of full passes over the training loader that are followed.
MaxPasses == 2

\* Mover ids.
Movers == 1..NumMovers
\* Height/width pairs of the image files on disk.
ImageDims == {<<1, 1>>, <<2, 1>>, <<2, 2>>}
\* Values of the image_shape argument.
ImageShapes == {<<1, 1>>, <<1, 2>>, <<2, 2>>}
\* State of a path of the image directory. Whether the file exists is fixed
\* when the loop reaches its mover ("missing" or "unread"); what the file
\* holds is observed when Image.open reads it: no image ("corrupt") or an
\* image of some height and width ("ok").
Missing == [st |-> "missing", h |-> 0, w |-> 0]
Unread == [st |-> "unread", h |-> 0, w |-> 0]
Corrupt == [st |-> "corrupt", h |-> 0, w |-> 0]
Image(d) == [st |-> "ok", h |-> d[1], w |-> d[2]]

VARIABLES
    \* ---- get_dataframe / get_dataset
    real_movers,      \* rows of movers_images_lookup.csv
    bogus_movers,     \* rows of rejected_movers_images_lookup.csv
    image_shape,      \* argument of get_dataset
    movers_agg,       \* groups in iteration order: [key, rows]
    idx,              \* number of groups the for loop is done with
    group_data,       \* the group of the current (or last) iteration
    row,              \* index of the row iterrows is at
    fs,               \* image directory under the paths of group_data's rows
    image_tensors,    \* frames accumulated for the current mover
    x_tensors,
    y_hat_tensors,
    mover_ids,
    data_set,         \* returned TensorDataset
    printed,          \* lines written to standard output
    opened,           \* file names handed to Image.open so far
    passed,           \* keys of finished groups with 4 rows, all present, all passing the check
    pc,               \* control point of get_dataset
    raised,           \* exception that ended the run, "" if none
    \* ---- get_loaders
    ds_len,           \* len(data_set)
    split,            \* <<p, q>> standing for the fractions p/(p+q), q/(p+q)
    batch_size,
    indices,          \* randperm drawn by random_split
    train_data_set,   \* Subset indices of the training subset
    val_data_set,     \* Subset indices of the validation subset
    order,            \* permutation drawn by the loader's RandomSampler for this pass
    batches,          \* batches yielded so far in this pass
    passes,           \* number of completed passes
    lpc               \* control point of get_loaders

dsVars == <<real_movers, bogus_movers, image_shape, movers_agg, idx, group_data,
            row, fs, image_tensors, x_tensors, y_hat_tensors, mover_ids, data_set,
            printed, opened, passed, pc, raised>>
ldVars == <<ds_len, split, batch_size, indices, train_data_set, val_data_set,
            order, batches, passes, lpc>>
vars == <<dsVars, ldVars>>

\* ------------------------------------------------------------------ helpers
RECURSIVE SumSeq(_)
SumSeq(s) == IF s = <<>> THEN 0 ELSE Head(s) + SumSeq(Tail(s))

RECURSIVE Flatten(_)
Flatten(ss) == IF ss = <<>> THEN <<>> ELSE Head(ss) \o Flatten(Tail(ss))

Range(s) == {s[i] : i \in DOMAIN s}

Min(S) == CHOOSE m \in S : \A k \in S : m <= k

RECURSIVE SortedKeys(_)
SortedKeys(S) == IF S = {} THEN <<>> ELSE <<Min(S)>> \o SortedKeys(S \ {Min(S)})

NoGroup == [key |-> 0, rows |-> <<>>]
NoFiles == [f \in {} |-> 0]
NoTensor == [shape |-> <<>>, data |-> <<>>]
NoDataset == [x |-> NoTensor, y |-> NoTensor]

\* ------------------------------------------------------------------ tensors
\* torch.cat(tensors, dim): legal iff the list is non-empty and all tensors have
\* the same shape except in dimension dim (dim is 1-based here).
CatOK(ts, dim) ==
    /\ ts # <<>>
    /\ \A i \in DOMAIN ts :
          /\ Len(ts[i].shape) = Len(ts[1].shape)
          /\ dim \in DOMAIN ts[i].shape
          /\ \A k \in DOMAIN ts[i].shape : k # dim => ts[i].shape[k] = ts[1].shape[k]

Cat(ts, dim) ==
    [shape |-> [k \in DOMAIN ts[1].shape |->
                   IF k = dim THEN SumSeq([i \in DOMAIN ts |-> ts[i].shape[dim]])
                              ELSE ts[1].shape[k]],
     data  |-> Flatten([i \in DOMAIN ts |-> ts[i].data])]

\* Image.open(path).convert("L") followed by ToTensor(): a (C, H, W) tensor
\* with C = 1 channel.
ToTensor(file_name, img) ==
    [shape |-> <<1, img.h, img.w>>, data |-> <<[file |-> file_name, h |-> img.h, w |-> img.w]>>]

\* The condition of the if at lines 67-70: shape[0] and shape[1] of the
\* (C, H, W) tensor against image_shape[0] and image_shape[1].
ShapeCheckFails(t, shape) ==
    t.shape[1] # shape[1] \/ t.shape[2] # shape[2]

\* image_tensor.view(1, 1, *image_tensor.shape)
View(t) == [shape |-> <<1, 1>> \o t.shape, data |-> t.data]

\* torch.tensor([[label]])
LabelTensor(label) == [shape |-> <<1, 1>>, data |-> <<label>>]

\* -------------------------------------------------------------- get_dataframe
\* real_movers["label"] = 1 / bogus_movers["label"] = 0
AddLabel(csv, label) ==
    [i \in DOMAIN csv |->
        [mover_id |-> csv[i].mover_id, file_name |-> csv[i].file_name, label |-> label]]

\* pd.concat([real_movers, bogus_movers])
ConcatFrames(real, bogus) == AddLabel(real, 1) \o AddLabel(bogus, 0)

\* movers.groupby("mover_id"): groups in ascending key order, each with its
\* rows in the order of the concatenated frame.
GroupBy(movers) ==
    LET keys == SortedKeys({movers[i].mover_id : i \in DOMAIN movers})
    IN  [k \in DOMAIN keys |->
            [key  |-> keys[k],
             rows |-> SelectSeq(movers, LAMBDA r : r.mover_id = keys[k])]]

\* ------------------------------------------------------------------ inputs
\* A lookup table with cnt[m] rows for mover m, movers in descending id order,
\* every row naming a file of its own.
RECURSIVE CsvRows(_, _, _)
CsvRows(tag, cnt, m) ==
    IF m = 0 THEN <<>>
    ELSE [i \in 1..cnt[m] |-> [mover_id |-> m, file_name |-> <<tag, m, i>>]]
            \o CsvRows(tag, cnt, m - 1)

\* <<rows in the real table, rows in the rejected table>> of one mover id:
\* the id is absent or has 3..MaxRows rows, and they lie in one table or, for
\* an id that occurs in both tables, all but one lie in the real table.
RowCounts ==
    {c \in (0..MaxRows) \X (0..MaxRows) :
        /\ c[1] + c[2] \in {0} \cup (3..MaxRows)
        /\ c[1] = 0 \/ c[2] <= 1}

FileNamesOf(g) == {g.rows[i].file_name : i \in DOMAIN g.rows}

\* ------------------------------------------------------- declarative checks
\* Under directory content dir, group g has 4 rows, every file is an image,
\* and every image passes the check of lines 67-70.
PassesChecks(g, dir) ==
    /\ Len(g.rows) = 4
    /\ \A i \in 1..4 :
          /\ dir[g.rows[i].file_name].st = "ok"
          /\ ~ShapeCheckFails(ToTensor(g.rows[i].file_name, dir[g.rows[i].file_name]),
                              image_shape)

LoadersIdle ==
    /\ ds_len = 0 /\ split = <<0, 0>> /\ batch_size = 0 /\ indices = <<>>
    /\ train_data_set = <<>> /\ val_data_set = <<>> /\ order = <<>>
    /\ batches = <<>> /\ passes = 0 /\ lpc = "idle"

Init ==
    /\ \E cr \in [Movers -> RowCounts] :
          /\ real_movers = CsvRows("r", [m \in Movers |-> cr[m][1]], NumMovers)
          /\ bogus_movers = CsvRows("b", [m \in Movers |-> cr[m][2]], NumMovers)
    /\ image_shape \in ImageShapes
    /\ movers_agg = <<>>
    /\ idx = 0
    /\ group_data = NoGroup
    /\ row = 0
    /\ fs = NoFiles
    /\ image_tensors = <<>>
    /\ x_tensors = <<>>
    /\ y_hat_tensors = <<>>
    /\ mover_ids = <<>>
    /\ data_set = NoDataset
    /\ printed = <<>>
    /\ opened = {}
    /\ passed = <<>>
    /\ pc = "start"
    /\ raised = ""
    /\ LoadersIdle

DatasetIdle ==
    /\ real_movers = <<>> /\ bogus_movers = <<>> /\ image_shape = <<0, 0>>
    /\ movers_agg = <<>> /\ idx = 0 /\ group_data = NoGroup /\ row = 0
    /\ fs = NoFiles /\ image_tensors = <<>> /\ x_tensors = <<>>
    /\ y_hat_tensors = <<>> /\ mover_ids = <<>> /\ data_set = NoDataset
    /\ printed = <<>> /\ opened = {} /\ passed = <<>> /\ pc = "idle" /\ raised = ""

\* ------------------------------------------------------------ get_dataframe
GetDataframe ==
    /\ pc = "start"
    /\ movers_agg' = GroupBy(ConcatFrames(real_movers, bogus_movers))
    /\ pc' = "for"
    /\ UNCHANGED <<real_movers, bogus_movers, image_shape, idx, group_data, row, fs,
                   image_tensors, x_tensors, y_hat_tensors, mover_ids,
                   data_set, printed, opened, passed, raised>>
    /\ UNCHANGED ldVars

\* -------------------------------------------------------------- get_dataset
\* Variant of LengthOK: the test of line 50 written as "fewer than 4".
LengthOK_AtLeast(g) == Len(g.rows) >= 4

\* Line 50, negated: the group is 4 images long.
LengthOK(g) == Len(g.rows) = 4

\* Lines 47-52: a group that is not 4 rows long is reported and skipped.
SkipLength ==
    /\ pc = "for"
    /\ idx < Len(movers_agg)
    /\ LET g == movers_agg[idx + 1] IN
          /\ ~LengthOK(g)
          /\ group_data' = g
          /\ printed' = Append(printed, [kind |-> "length", mover_id |-> g.key,
                                         arg |-> Len(g.rows)])
    /\ image_tensors' = <<>>
    /\ fs' = NoFiles
    /\ idx' = idx + 1
    /\ UNCHANGED <<real_movers, bogus_movers, image_shape, movers_agg, row,
                   x_tensors, y_hat_tensors, mover_ids, data_set,
                   opened, passed, pc, raised>>
    /\ UNCHANGED ldVars

\* Image directories for group g in which at most one of its files is missing.
Directories(g) ==
    {[f \in FileNamesOf(g) |-> IF k \in DOMAIN g.rows /\ f = g.rows[k].file_name
                                  THEN Missing ELSE Unread] : k \in 0..Len(g.rows)}

\* Variant of EnterGroup: image_tensors is not emptied per mover (line 48
\* hoisted out of the for loop).
EnterGroup_NoReset ==
    /\ pc = "for"
    /\ idx < Len(movers_agg)
    /\ LET g == movers_agg[idx + 1] IN
          /\ LengthOK(g)
          /\ group_data' = g
          /\ fs' \in Directories(g)
    /\ row' = 1
    /\ pc' = "rows"
    /\ UNCHANGED <<real_movers, bogus_movers, image_shape, movers_agg, idx,
                   image_tensors, x_tensors, y_hat_tensors, mover_ids, data_set,
                   printed, opened, passed, raised>>
    /\ UNCHANGED ldVars

\* Lines 47-54: a 4-row group enters the row loop. Which of the group's 4
\* paths exist in the image directory is fixed here, before any is opened.
EnterGroup ==
    /\ pc = "for"
    /\ idx < Len(movers_agg)
    /\ LET g == movers_agg[idx + 1] IN
          /\ LengthOK(g)
          /\ group_data' = g
          /\ fs' \in Directories(g)
    /\ image_tensors' = <<>>
    /\ row' = 1
    /\ pc' = "rows"
    /\ UNCHANGED <<real_movers, bogus_movers, image_shape, movers_agg, idx,
                   x_tensors, y_hat_tensors, mover_ids, data_set,
                   printed, opened, passed, raised>>
    /\ UNCHANGED ldVars

CurFile == group_data.rows[row].file_name

\* The row loop is at a row whose file Image.open is about to be given.
AtRow == pc = "rows" /\ row <= Len(group_data.rows)

\* The for loop is done with group_data, whose files were found to be dir.
FinishGroup(dir) ==
    /\ idx' = idx + 1
    /\ passed' = IF PassesChecks(group_data, dir) THEN Append(passed, group_data.key)
                                                  ELSE passed
    /\ fs' = dir
    /\ pc' = "for"

\* Variant of ImageNotFound: no try/except around Image.open.
ImageNotFound_Raises ==
    /\ AtRow
    /\ fs[CurFile].st = "missing"
    /\ opened' = opened \cup {CurFile}
    /\ pc' = "error"
    /\ raised' = "FileNotFoundError"
    /\ UNCHANGED <<real_movers, bogus_movers, image_shape, movers_agg, idx,
                   group_data, row, fs, image_tensors, x_tensors, y_hat_tensors,
                   mover_ids, data_set, printed, passed>>
    /\ UNCHANGED ldVars

\* Lines 55-61: FileNotFoundError is caught, reported, and the row loop is left.
ImageNotFound ==
    /\ AtRow
    /\ fs[CurFile].st = "missing"
    /\ opened' = opened \cup {CurFile}
    /\ printed' = Append(printed, [kind |-> "notfound", mover_id |-> group_data.key,
                                   arg |-> CurFile])
    /\ FinishGroup(fs)
    /\ UNCHANGED <<real_movers, bogus_movers, image_shape, movers_agg, group_data,
                   row, image_tensors, x_tensors, y_hat_tensors,
                   mover_ids, data_set, raised>>
    /\ UNCHANGED ldVars

\* Line 58: a file that exists but is no image makes Image.open raise
\* UnidentifiedImageError, which the except clause of line 59 does not name.
ImageUndecodable ==
    /\ AtRow
    /\ fs[CurFile].st = "unread"
    /\ fs' = [fs EXCEPT ![CurFile] = Corrupt]
    /\ opened' = opened \cup {CurFile}
    /\ pc' = "error"
    /\ raised' = "UnidentifiedImageError"
    /\ UNCHANGED <<real_movers, bogus_movers, image_shape, movers_agg, idx,
                   group_data, row, image_tensors, x_tensors,
                   y_hat_tensors, mover_ids, data_set, printed, passed>>
    /\ UNCHANGED ldVars

\* Variant of ShapeMismatch: continue in place of the break of line 71.
ShapeMismatch_Continue ==
    /\ AtRow
    /\ fs[CurFile].st = "unread"
    /\ \E d \in ImageDims :
          /\ ShapeCheckFails(ToTensor(CurFile, Image(d)), image_shape)
          /\ fs' = [fs EXCEPT ![CurFile] = Image(d)]
    /\ opened' = opened \cup {CurFile}
    /\ row' = row + 1
    /\ UNCHANGED <<real_movers, bogus_movers, image_shape, movers_agg, idx,
                   group_data, image_tensors, x_tensors, y_hat_tensors, mover_ids,
                   data_set, printed, passed, pc, raised>>
    /\ UNCHANGED ldVars

\* Lines 58-71: the image loads and fails the check: the row loop is left
\* without a message.
ShapeMismatch ==
    /\ AtRow
    /\ fs[CurFile].st = "unread"
    /\ \E d \in ImageDims :
          LET t == ToTensor(CurFile, Image(d)) IN
          /\ ShapeCheckFails(t, image_shape)
          /\ FinishGroup([fs EXCEPT ![CurFile] = Image(d)])
    /\ opened' = opened \cup {CurFile}
    /\ UNCHANGED <<real_movers, bogus_movers, image_shape, movers_agg, group_data,
                   row, image_tensors, x_tensors, y_hat_tensors, mover_ids,
                   data_set, printed, raised>>
    /\ UNCHANGED ldVars

\* Lines 58-74: the image loads, passes the check and is accumulated.
AppendFrame ==
    /\ AtRow
    /\ fs[CurFile].st = "unread"
    /\ \E d \in ImageDims :
          LET t == ToTensor(CurFile, Image(d)) IN
          /\ ~ShapeCheckFails(t, image_shape)
          /\ image_tensors' = Append(image_tensors, View(t))
          /\ fs' = [fs EXCEPT ![CurFile] = Image(d)]
    /\ opened' = opened \cup {CurFile}
    /\ row' = row + 1
    /\ UNCHANGED <<real_movers, bogus_movers, image_shape, movers_agg, idx,
                   group_data, x_tensors, y_hat_tensors, mover_ids, data_set,
                   printed, passed, pc, raised>>
    /\ UNCHANGED ldVars

\* The row loop has run through all rows without break.
RowsDone == pc = "rows" /\ row > Len(group_data.rows)

\* Lines 75-81: the else branch of the row loop.
StackFrames ==
    /\ RowsDone
    /\ CatOK(image_tensors, 3)
    /\ x_tensors' = Append(x_tensors, Cat(image_tensors, 3))
    /\ y_hat_tensors' = Append(y_hat_tensors, LabelTensor(group_data.rows[1].label))
    /\ mover_ids' = Append(mover_ids, group_data.key)
    /\ FinishGroup(fs)
    /\ UNCHANGED <<real_movers, bogus_movers, image_shape, movers_agg, group_data,
                   row, image_tensors, data_set, printed, opened,
                   raised>>
    /\ UNCHANGED ldVars

\* Line 78: torch.cat raises when the frames differ outside dimension 2.
StackRaises ==
    /\ RowsDone
    /\ ~CatOK(image_tensors, 3)
    /\ pc' = "error"
    /\ raised' = "RuntimeError:cat"
    /\ UNCHANGED <<real_movers, bogus_movers, image_shape, movers_agg, idx,
                   group_data, row, fs, image_tensors, x_tensors,
                   y_hat_tensors, mover_ids, data_set, printed, opened, passed>>
    /\ UNCHANGED ldVars

\* The for loop is exhausted.
LoopDone == pc = "for" /\ idx = Len(movers_agg)

\* Variant of ReturnDataset: an empty list of Samples yields an empty dataset.
ReturnDataset_AllowEmpty ==
    /\ LoopDone
    /\ x_tensors = <<>> \/ (CatOK(x_tensors, 1) /\ CatOK(y_hat_tensors, 1))
    /\ data_set' = IF x_tensors = <<>> THEN NoDataset
                    ELSE [x |-> Cat(x_tensors, 1), y |-> Cat(y_hat_tensors, 1)]
    /\ pc' = "returned"
    /\ UNCHANGED <<real_movers, bogus_movers, image_shape, movers_agg, idx,
                   group_data, row, fs, image_tensors, x_tensors, y_hat_tensors,
                   mover_ids, printed, opened, passed, raised>>
    /\ UNCHANGED ldVars

\* Lines 83-86: aggregation into the TensorDataset.
ReturnDataset ==
    /\ LoopDone
    /\ CatOK(x_tensors, 1)
    /\ CatOK(y_hat_tensors, 1)
    /\ data_set' = [x |-> Cat(x_tensors, 1), y |-> Cat(y_hat_tensors, 1)]
    /\ pc' = "returned"
    /\ UNCHANGED <<real_movers, bogus_movers, image_shape, movers_agg, idx,
                   group_data, row, fs, image_tensors, x_tensors,
                   y_hat_tensors, mover_ids, printed, opened, passed, raised>>
    /\ UNCHANGED ldVars

\* Line 83: torch.concat raises on an empty list and on samples of unequal shape.
ConcatRaises ==
    /\ LoopDone
    /\ ~CatOK(x_tensors, 1)
    /\ pc' = "error"
    /\ raised' = IF x_tensors = <<>> THEN "RuntimeError:concat-empty"
                                     ELSE "RuntimeError:concat-sizes"
    /\ UNCHANGED <<real_movers, bogus_movers, image_shape, movers_agg, idx,
                   group_data, row, fs, image_tensors, x_tensors,
                   y_hat_tensors, mover_ids, data_set, printed, opened, passed>>
    /\ UNCHANGED ldVars

Next ==
    \/ GetDataframe
    \/ SkipLength
    \/ EnterGroup
    \/ ImageNotFound
    \/ ImageUndecodable
    \/ ShapeMismatch
    \/ AppendFrame
    \/ StackFrames
    \/ StackRaises
    \/ ReturnDataset
    \/ ConcatRaises

Spec == Init /\ [][Next]_vars


\* ================================================================ get_loaders
\* Sizes of the dataset handed to get_loaders: every size up to MaxLen, and
\* the 10 samples of the documented scenario.
DatasetSizes == (0..MaxLen) \cup {10}
\* Split fractions as pairs <<p, q>> standing for p/(p+q) and q/(p+q): all
\* non-negative thirds and tenths summing to 1.
Splits == UNION {{<<p, d - p>> : p \in 0..d} : d \in {3, 10}}
\* Batch sizes: every size up to MaxBatch, and the default 4 of line 92.
BatchSizes == (1..MaxBatch) \cup {4}

Perms(n) == {p \in [1..n -> 1..n] : \A i, j \in 1..n : p[i] = p[j] => i = j}
Rotations(n) == {[i \in 1..n |-> ((i + k - 1) % n) + 1] : k \in 0..(n - 1)}
\* Outcomes of torch.randperm(n) that are followed: every permutation up to
\* MaxLen elements, the rotations of the identity beyond.
RandPerms(n) == IF n <= MaxLen THEN Perms(n) ELSE Rotations(n)

\* random_split, fraction branch: floor(len * frac) per subset, the remainder
\* handed out one by one, round-robin from the first subset.
SplitLengths(n, fr) ==
    LET den   == fr[1] + fr[2]
        floor == [i \in 1..2 |-> (n * fr[i]) \div den]
        rem   == n - (floor[1] + floor[2])
    IN  <<floor[1] + ((rem + 1) \div 2), floor[2] + (rem \div 2)>>

\* Variant of SubsetSlice: the slice taken from the start of the permutation.
SubsetSlice_FromStart(perm, offset, length) == SubSeq(perm, 1, offset)

\* random_split: indices[offset - length : offset]
SubsetSlice(perm, offset, length) == SubSeq(perm, offset - length + 1, offset)

Smaller(a, b) == IF a < b THEN a ELSE b

\* Variant of BatchesOf: incomplete last batch dropped (drop_last=True).
BatchesOf_DropLast(ord, bs) ==
    [b \in 1..(Len(ord) \div bs) |-> SubSeq(ord, (b - 1) * bs + 1, b * bs)]

\* BatchSampler with drop_last=False over the sampler's order: consecutive
\* chunks of batch_size, the last one holding what is left.
BatchesOf(ord, bs) ==
    [b \in 1..((Len(ord) + bs - 1) \div bs) |->
        SubSeq(ord, (b - 1) * bs + 1, Smaller(b * bs, Len(ord)))]

InitLoaders ==
    /\ DatasetIdle
    /\ ds_len \in DatasetSizes
    /\ split \in Splits
    /\ batch_size \in BatchSizes
    /\ indices = <<>>
    /\ train_data_set = <<>>
    /\ val_data_set = <<>>
    /\ order = <<>>
    /\ batches = <<>>
    /\ passes = 0
    /\ lpc = "start"

\* Line 105: random_split(data_set, split).
RandomSplit ==
    /\ lpc = "start"
    /\ LET lengths == SplitLengths(ds_len, split) IN
          /\ lengths[1] + lengths[2] = ds_len
          /\ \E perm \in RandPerms(ds_len) :
                /\ indices' = perm
                /\ train_data_set' = SubsetSlice(perm, lengths[1], lengths[1])
                /\ val_data_set' = SubsetSlice(perm, lengths[1] + lengths[2], lengths[2])
    /\ lpc' = "split"
    /\ UNCHANGED <<ds_len, split, batch_size, order, batches, passes>>
    /\ UNCHANGED dsVars

\* Lines 106-109: the DataLoader is built and returned.
MakeLoader ==
    /\ lpc = "split"
    /\ lpc' = "loaded"
    /\ UNCHANGED <<ds_len, split, batch_size, indices, train_data_set, val_data_set,
                   order, batches, passes>>
    /\ UNCHANGED dsVars

\* Lines 106-108: with shuffle=True the loader builds a RandomSampler, whose
\* constructor rejects an empty data source in the torch releases that check
\* num_samples > 0.
LoaderRaises ==
    /\ lpc = "split"
    /\ train_data_set = <<>>
    /\ lpc' = "error"
    /\ UNCHANGED <<ds_len, split, batch_size, indices, train_data_set, val_data_set,
                   order, batches, passes>>
    /\ UNCHANGED dsVars

\* iter(train_loader): the RandomSampler draws the order of this pass.
StartPass ==
    /\ lpc = "loaded"
    /\ passes < MaxPasses
    /\ \E perm \in RandPerms(Len(train_data_set)) :
          order' = [i \in DOMAIN train_data_set |-> train_data_set[perm[i]]]
    /\ batches' = <<>>
    /\ lpc' = "iterating"
    /\ UNCHANGED <<ds_len, split, batch_size, indices, train_data_set, val_data_set,
                   passes>>
    /\ UNCHANGED dsVars

\* next(iterator): the next batch of the pass.
NextBatch ==
    /\ lpc = "iterating"
    /\ Len(batches) < Len(BatchesOf(order, batch_size))
    /\ batches' = Append(batches, BatchesOf(order, batch_size)[Len(batches) + 1])
    /\ UNCHANGED <<ds_len, split, batch_size, indices, train_data_set, val_data_set,
                   order, passes, lpc>>
    /\ UNCHANGED dsVars

\* next(iterator) raises StopIteration: the pass is over.
EndPass ==
    /\ lpc = "iterating"
    /\ Len(batches) = Len(BatchesOf(order, batch_size))
    /\ passes' = passes + 1
    /\ lpc' = "loaded"
    /\ UNCHANGED <<ds_len, split, batch_size, indices, train_data_set, val_data_set,
                   order, batches>>
    /\ UNCHANGED dsVars

NextLoaders ==
    \/ RandomSplit
    \/ MakeLoader
    \/ LoaderRaises
    \/ StartPass
    \/ NextBatch
    \/ EndPass

SpecLoaders == InitLoaders /\ [][NextLoaders]_vars

\* ===================================================== properties, get_dataset
\* The for loop is done with group_data; for a 4-row group fs still holds what
\* the loop found under its paths.
GroupFinished == idx >= 1 /\ group_data = movers_agg[idx]

FourRows(g) == Len(g.rows) = 4
HasMissing(g) == \E f \in FileNamesOf(g) : fs[f].st = "missing"
\* Label get_dataframe injects for the table a row was read from.
TableLabel(r) == IF r.file_name[1] = "r" THEN 1 ELSE 0
SingleTable(g) == \A i, j \in DOMAIN g.rows : g.rows[i].file_name[1] = g.rows[j].file_name[1]
GroupOf(key) == CHOOSE g \in Range(movers_agg) : g.key = key
FilesIn(t) == {t.data[j].file : j \in DOMAIN t.data}
MessagesFor(key, kind) ==
    {j \in DOMAIN printed : printed[j].mover_id = key /\ printed[j].kind = kind}
\* Every row of g before row k loaded and passed the check of lines 67-70.
LoadedBefore(g, k) ==
    \A i \in 1..(k - 1) :
        /\ fs[g.rows[i].file_name].st = "ok"
        /\ ~ShapeCheckFails(ToTensor(g.rows[i].file_name, fs[g.rows[i].file_name]),
                            image_shape)
MissingRow(g) == CHOOSE k \in DOMAIN g.rows : fs[g.rows[k].file_name].st = "missing"

\* C1: a finished 4-row group of one table whose files all exist and whose
\* images all have height and width equal to image_shape has contributed the
\* last Sample, of shape (1,1,4H,W), labelled with its table's label.
\* (Files the loop never read are taken to hold such an image.)
C1_Claim ==
    (/\ GroupFinished
     /\ FourRows(group_data)
     /\ SingleTable(group_data)
     /\ \A f \in FileNamesOf(group_data) :
           \/ fs[f].st = "unread"
           \/ fs[f].st = "ok" /\ <<fs[f].h, fs[f].w>> = image_shape)
    => /\ mover_ids # <<>>
       /\ mover_ids[Len(mover_ids)] = group_data.key
       /\ x_tensors[Len(x_tensors)].shape
             = <<1, 1, 4 * image_shape[1], image_shape[2]>>
       /\ y_hat_tensors[Len(y_hat_tensors)].data = <<TableLabel(group_data.rows[1])>>

C3_WrongLengthSkipped ==
    \A k \in 1..idx :
        ~FourRows(movers_agg[k]) =>
            /\ movers_agg[k].key \notin Range(mover_ids)
            /\ \A i \in DOMAIN x_tensors :
                  FilesIn(x_tensors[i]) \cap FileNamesOf(movers_agg[k]) = {}
            /\ opened \cap FileNamesOf(movers_agg[k]) = {}
            /\ Cardinality({j \in DOMAIN printed : printed[j].mover_id = movers_agg[k].key}) = 1
            /\ Cardinality(MessagesFor(movers_agg[k].key, "length")) = 1

\* A 5-row group pooled from both tables and a 3-row group were both skipped.
C3_Witness ==
    /\ idx = 2
    /\ \E k \in 1..idx : Len(movers_agg[k].rows) = 5 /\ ~SingleTable(movers_agg[k])
    /\ \E k \in 1..idx : Len(movers_agg[k].rows) = 3
    /\ Len(printed) = 2

\* C4 as claimed: a 4-row group with a missing file never ends the run, and
\* once the loop is done with it, it has no Sample and a message was printed
\* for it.
C4_Original ==
    (FourRows(group_data) /\ HasMissing(group_data))
    => /\ raised # "UnidentifiedImageError"
       /\ GroupFinished =>
             /\ group_data.key \notin Range(mover_ids)
             /\ \A i \in DOMAIN x_tensors :
                   FilesIn(x_tensors[i]) \cap FileNamesOf(group_data) = {}
             /\ MessagesFor(group_data.key, "notfound") # {}

\* C4 amended: a 4-row group with a missing file has no Sample, and no Sample
\* holds a frame of another mover; the "not found" message is printed (once)
\* exactly when every earlier row of the group loaded and passed the check,
\* and the run is ended inside the group only by an earlier undecodable file.
C4_Amended ==
    /\ \A i \in DOMAIN x_tensors :
          FilesIn(x_tensors[i]) \subseteq FileNamesOf(GroupOf(mover_ids[i]))
    /\ (FourRows(group_data) /\ HasMissing(group_data)) =>
          /\ group_data.key \notin Range(mover_ids)
          /\ GroupFinished =>
                /\ Cardinality(MessagesFor(group_data.key, "notfound")) <= 1
                /\ MessagesFor(group_data.key, "notfound") # {}
                      <=> LoadedBefore(group_data, MissingRow(group_data))
                /\ raised \notin {"UnidentifiedImageError", "RuntimeError:cat",
                                  "FileNotFoundError"}
          /\ (~GroupFinished /\ pc = "error") =>
                /\ raised = "UnidentifiedImageError"
                /\ \E i \in 1..(MissingRow(group_data) - 1) :
                      fs[group_data.rows[i].file_name].st = "corrupt"

\* The last mover lost its third file after two frames were loaded; the run
\* went on and returned the Sample of the other mover.
C4_Witness ==
    /\ pc = "returned"
    /\ FourRows(group_data)
    /\ fs[group_data.rows[3].file_name].st = "missing"
    /\ MessagesFor(group_data.key, "notfound") # {}
    /\ Len(mover_ids) = 1

\* C5: no Sample holds an image whose height and width differ from image_shape.
C5_Claim ==
    \A i \in DOMAIN x_tensors :
        \A j \in DOMAIN x_tensors[i].data :
            <<x_tensors[i].data[j].h, x_tensors[i].data[j].w>> = image_shape

\* C6: when the loop ends with no Sample, the run ends with the error of
\* torch.concat on an empty list; a returned dataset is never empty.
C6_EmptyIsFatal ==
    /\ (pc \in {"returned", "error"} /\ idx = Len(movers_agg) /\ x_tensors = <<>>)
          => (pc = "error" /\ raised = "RuntimeError:concat-empty")
    /\ pc = "returned" =>
          /\ mover_ids # <<>>
          /\ data_set # NoDataset
          /\ data_set.x.shape[1] >= 1

\* Every group was skipped and the aggregation raised.
C6_Witness ==
    /\ pc = "error"
    /\ raised = "RuntimeError:concat-empty"
    /\ Len(movers_agg) = 2
    /\ idx = 2
    /\ \E k \in 1..idx : FourRows(movers_agg[k])

\* C7 as claimed: no image-load failure ends the run.
C7_Original == ~(pc = "error" /\ raised = "UnidentifiedImageError")

\* C7 amended: a missing file never ends the run: its mover is dropped with a
\* message and the loop goes on, and the movers recorded are exactly the
\* finished groups that passed every check; a file that exists but cannot be
\* decoded ends the run with the uncaught UnidentifiedImageError.
C7_Amended ==
    /\ raised # "FileNotFoundError"
    /\ \A j \in DOMAIN printed :
          printed[j].kind = "notfound" =>
             /\ printed[j].mover_id \notin Range(mover_ids)
             /\ \E k \in 1..idx : movers_agg[k].key = printed[j].mover_id
    /\ mover_ids = passed
    /\ (FourRows(group_data) /\ ~GroupFinished
           /\ \E f \in FileNamesOf(group_data) : fs[f].st = "corrupt")
          => (pc = "error" /\ raised = "UnidentifiedImageError")
    /\ raised = "UnidentifiedImageError" =>
          (pc = "error" /\ fs[CurFile].st = "corrupt")

\* The first mover lost a file, the second one still made it into the dataset.
C7_Witness ==
    /\ pc = "returned"
    /\ \E j \in DOMAIN printed : printed[j].kind = "notfound" /\ printed[j].mover_id = 1
    /\ mover_ids = <<2>>

\* C10: the label of every Sample equals the label of each row of its group.
C10_Claim ==
    \A i \in DOMAIN mover_ids :
        \A j \in DOMAIN GroupOf(mover_ids[i]).rows :
            GroupOf(mover_ids[i]).rows[j].label = y_hat_tensors[i].data[1]


\* ===================================================== properties, get_loaders
\* Python's round(a / b): to the nearest integer, ties to the even one.
RoundHalfEven(a, b) ==
    LET q == a \div b
        r == a % b
    IN  IF 2 * r < b THEN q
        ELSE IF 2 * r > b THEN q + 1
        ELSE IF q % 2 = 0 THEN q ELSE q + 1

Abs(x) == IF x < 0 THEN -x ELSE x
Distinct(sq) == \A i, j \in DOMAIN sq : sq[i] = sq[j] => i = j
SplitDone == lpc \in {"split", "loaded", "iterating", "error"}
PassComplete == lpc = "loaded" /\ passes >= 1

\* C8: after random_split the two subsets are disjoint and together hold each
\* of the N samples once, the training subset has round(N * split[0]) samples
\* give or take one, and for N = 10, split = (0.7, 0.3), batch_size = 4 the
\* sizes are 7 and 3 and a pass yields batches of 4 and 3 samples.
C8_SplitSizes ==
    SplitDone =>
        /\ Range(train_data_set) \cap Range(val_data_set) = {}
        /\ Range(train_data_set) \cup Range(val_data_set) = 1..ds_len
        /\ Distinct(train_data_set) /\ Distinct(val_data_set)
        /\ Len(train_data_set) + Len(val_data_set) = ds_len
        /\ Abs(Len(train_data_set)
                 - RoundHalfEven(ds_len * split[1], split[1] + split[2])) <= 1
        /\ (ds_len = 10 /\ split = <<7, 3>>) =>
              /\ Len(train_data_set) = 7
              /\ Len(val_data_set) = 3
              /\ (batch_size = 4 /\ PassComplete) =>
                    [b \in DOMAIN batches |-> Len(batches[b])] = <<4, 3>>

\* The documented scenario after one full pass.
C8_Witness ==
    /\ ds_len = 10 /\ split = <<7, 3>> /\ batch_size = 4
    /\ PassComplete
    /\ Len(batches) = 2

\* C9: the batches of a pass hold no sample twice and none of the validation
\* subset, each holds 1..batch_size samples and all but the last hold
\* batch_size; a complete pass holds every sample of the training subset.
C9_FullPass ==
    (lpc = "iterating" \/ PassComplete) =>
        /\ Distinct(Flatten(batches))
        /\ Range(Flatten(batches)) \subseteq Range(train_data_set)
        /\ Range(Flatten(batches)) \cap Range(val_data_set) = {}
        /\ \A b \in DOMAIN batches :
              /\ Len(batches[b]) >= 1
              /\ Len(batches[b]) <= batch_size
              /\ b < Len(batches) => Len(batches[b]) = batch_size
        /\ PassComplete => Range(Flatten(batches)) = Range(train_data_set)

\* A second pass ended with a short last batch, in another order than the
\* training subset's.
C9_Witness ==
    /\ PassComplete
    /\ passes = 2
    /\ Len(batches) >= 2
    /\ Len(batches[Len(batches)]) < batch_size
    /\ Flatten(batches) # train_data_set
    /\ val_data_set # <<>>

=============================================================================
